---- MODULE Spec2Model ----
(***************************************************************************)
(* Model of the weather pipeline of projeto-machine-learning:              *)
(*   - resume_weather_for_missing.py : resumable, rate-limited bulk fetch  *)
(*   - flights_weather_2024.py       : flight / weather join               *)
(* Three specifications share the module: Spec (one fetch run),            *)
(* SpecRestart (fetch runs with kill and restart), SpecMonths              *)
(* (months_between on bounded inputs) and SpecJoin (the join run).         *)
(***************************************************************************)
EXTENDS Integers, Sequences, FiniteSets, TLC

VARIABLES
  \* ---- resume_weather_for_missing.py ----
  miss,        \* pending list read from missing_airports.txt
  cache,       \* OUT_DIR: station -> NoFile or the file's content
  log,         \* LOG: NoFile or the sequence of rows (header first)
  pc,          \* position of the script
  idx,         \* position of the station loop in miss (1-based)
  mi,          \* position of the month loop in months (1-based)
  attempt,     \* attempt number of the attempt loop
  backoff,     \* additive rate-limit backoff of the current period
  parts,       \* per-period frames collected for the current station
  failed,      \* failed flag of the current station
  preq,        \* requests issued so far for the period of the latest request
  n429,        \* rate_limited answers among them
  lastOutcome, \* answer of the latest request ("none": no request yet)
  reqPeriods,  \* periods of the current station a request was issued for
  lastSleep,   \* seconds slept after the latest request (0: none yet)
  only429,     \* every answer for the current station was rate_limited
  runs,        \* number of the current run (1 = first)
  logAtKill,   \* the log as it was when the process was last killed
  \* ---- months_between on its own ----
  mStart, mEnd, mRes, mPc,
  \* ---- flights_weather_2024.py ----
  flights_csv,          \* FLIGHTS_CSV: the rows of the flight table
  flights_columns,      \* FLIGHTS_CSV: the column names of the flight table
  weather_dir,          \* WEATHER_DIR: station -> NoFile or the rows of its file
  jpc,                  \* position of main()
  flights_sel,          \* normalized flights with origin in SELECTED
  weather_all,          \* stacked weather table
  weather_unique,       \* weather table used for the join
  found,                \* stations whose weather file was stacked
  has_weather,          \* the mask of line 148, one boolean per merged row
  out_merged,           \* OUT_MERGED
  out_missing_orig,     \* OUT_MISSING_ORIG
  out_missing_matches,  \* OUT_MISSING_MATCHES
  out_counts            \* OUT_COUNTS

fetchVars == <<miss, cache, log, pc, idx, mi, attempt, backoff, parts, failed,
               preq, n429, lastOutcome, reqPeriods, lastSleep, only429, runs,
               logAtKill>>
monthVars == <<mStart, mEnd, mRes, mPc>>
joinVars == <<flights_csv, flights_columns, weather_dir, jpc, flights_sel,
              weather_all, weather_unique, found, has_weather, out_merged, out_missing_orig, out_missing_matches,
              out_counts>>
vars == <<fetchVars, monthVars, joinVars>>

----------------------------------------------------------------------------
(* Calendar dates: <<year, month, day>>, compared as datetime.date does.   *)

IsLeap(y) == (y % 4 = 0 /\ y % 100 # 0) \/ y % 400 = 0

DaysIn(y, m) ==
  IF m = 2 THEN (IF IsLeap(y) THEN 29 ELSE 28)
  ELSE IF m \in {4, 6, 9, 11} THEN 30 ELSE 31

date(y, m, d) == <<y, m, d>>

DateLt(a, b) ==
  \/ a[1] < b[1]
  \/ a[1] = b[1] /\ a[2] < b[2]
  \/ a[1] = b[1] /\ a[2] = b[2] /\ a[3] < b[3]

DateLe(a, b) == a = b \/ DateLt(a, b)

\* d - timedelta(days=1)
MinusOneDay(d) ==
  IF d[3] > 1 THEN <<d[1], d[2], d[3] - 1>>
  ELSE IF d[2] > 1 THEN <<d[1], d[2] - 1, DaysIn(d[1], d[2] - 1)>>
  ELSE <<d[1] - 1, 12, 31>>

\* d + timedelta(days=1)
PlusOneDay(d) ==
  IF d[3] < DaysIn(d[1], d[2]) THEN <<d[1], d[2], d[3] + 1>>
  ELSE IF d[2] < 12 THEN <<d[1], d[2] + 1, 1>>
  ELSE <<d[1] + 1, 1, 1>>

\* first day of the month after the month of d
NextMonthStart(d) ==
  IF d[2] = 12 THEN <<d[1] + 1, 1, 1>> ELSE <<d[1], d[2] + 1, 1>>

\* pd.date_range(start=start, end=end, freq='MS'): the month starts s with
\* start <= s <= end, in increasing order
RECURSIVE MonthStartsFrom(_, _)
MonthStartsFrom(s, end) ==
  IF DateLe(s, end) THEN <<s>> \o MonthStartsFrom(NextMonthStart(s), end)
  ELSE <<>>

date_range_MS(start, end) ==
  MonthStartsFrom(IF start[3] = 1 THEN start ELSE NextMonthStart(start), end)

\* PeriodOf without `if edate > end: edate = end`
PeriodOf_untruncated(s, end) ==
  <<date(s[1], s[2], 1),
    IF s[2] = 12 THEN date(s[1], 12, 31) ELSE MinusOneDay(date(s[1], s[2] + 1, 1))>>

\* the period built for one month start s (body of the loop of months_between)
PeriodOf(s, end) ==
  LET sdate == date(s[1], s[2], 1)
      edate0 == IF s[2] = 12 THEN date(s[1], 12, 31)
                ELSE MinusOneDay(date(s[1], s[2] + 1, 1))
      edate == IF DateLt(end, edate0) THEN end ELSE edate0
  IN <<sdate, edate>>

months_between(start, end) ==
  LET periods == date_range_MS(start, end)
  IN [i \in 1..Len(periods) |-> PeriodOf(periods[i], end)]

START_DATE == date(2024, 1, 1)
END_DATE == date(2024, 12, 31)
RETRY_ATTEMPTS == 6
SLEEP_BETWEEN_REQUESTS == 4
SLEEP_ON_429 == 60

MaxMonth == 3    \* the fetch runs explore the months 1..MaxMonth of [START_DATE, END_DATE]

\* END_DATE as the fetch runs explore it: the last day of month MaxMonth
FetchEnd ==
  IF MaxMonth >= END_DATE[2] THEN END_DATE
  ELSE date(END_DATE[1], MaxMonth, DaysIn(END_DATE[1], MaxMonth))

\* months of the station loop (USE_MONTHLY is True)
months == months_between(START_DATE, FetchEnd)

----------------------------------------------------------------------------
(* resume_weather_for_missing.py                                           *)

MaxPending == 2      \* longest pending list explored
MaxRuns == 3         \* runs explored by SpecRestart (kills = MaxRuns - 1)

Stations == {"ATL", "JFK", "ZZZ"}

\* ap.index: the stations airports.csv gives coordinates for
ap_index == {"ATL", "JFK"}

Outcomes == {"ok", "malformed", "rate_limited", "request_failed"}

NoFile == [exists |-> FALSE, content |-> <<>>]
File(c) == [exists |-> TRUE, content |-> c]

LogHeader == <<"iata", "status", "notes">>

\* the frame built from a well-formed payload of period p for station iata
Frame(iata, p) == [iata |-> iata, period |-> months[p]]

\* the complete series of a station: every period, in chronological order
FullSeries(iata) == [p \in 1..Len(months) |-> Frame(iata, p)]

RECURSIVE SeqsUpTo(_, _)
SeqsUpTo(S, n) ==
  IF n = 0 THEN {<<>>}
  ELSE LET shorter == SeqsUpTo(S, n - 1)
       IN shorter \cup {Append(q, x) : q \in {r \in shorter : Len(r) = n - 1}, x \in S}

PendingLists == SeqsUpTo(Stations, MaxPending)

iata == miss[idx]

\* AppendLog with LOG opened in write mode: the rows before are lost
AppendLog_truncating(row) == [exists |-> TRUE, content |-> <<row>>]

\* csv.writer(f).writerow(row) on LOG opened in append mode
AppendLog(row) == [exists |-> TRUE, content |-> Append(log.content, row)]

\* the fetch script is not running
FetchIdle ==
  /\ miss = <<>>
  /\ cache = [s \in Stations |-> NoFile]
  /\ log = NoFile
  /\ pc = "idle"
  /\ idx = 1
  /\ mi = 1
  /\ attempt = 1
  /\ backoff = 1
  /\ parts = <<>>
  /\ failed = FALSE
  /\ preq = 0
  /\ n429 = 0
  /\ lastOutcome = "none"
  /\ reqPeriods = {}
  /\ lastSleep = 0
  /\ only429 = TRUE
  /\ runs = 1
  /\ logAtKill = NoFile

\* main() of flights_weather_2024.py is not running
JoinIdle ==
  /\ flights_csv = <<>>
  /\ flights_columns = {}
  /\ weather_dir = [s \in {} |-> NoFile]
  /\ jpc = "idle"
  /\ flights_sel = <<>>
  /\ weather_all = <<>>
  /\ weather_unique = <<>>
  /\ found = <<>>
  /\ has_weather = <<>>
  /\ out_merged = NoFile
  /\ out_missing_orig = NoFile
  /\ out_missing_matches = NoFile
  /\ out_counts = NoFile

MonthInit ==
  /\ mStart = START_DATE
  /\ mEnd = END_DATE
  /\ mRes = <<>>
  /\ mPc = "idle"

FetchInit ==
  /\ miss \in PendingLists
  /\ cache \in {[s \in Stations |-> IF s \in F THEN File(FullSeries(s)) ELSE NoFile] :
                 F \in SUBSET Stations}
  /\ log \in {NoFile, File(<<LogHeader>>)}
  /\ pc = "prepare"
  /\ idx = 1
  /\ mi = 1
  /\ attempt = 1
  /\ backoff = 1
  /\ parts = <<>>
  /\ failed = FALSE
  /\ preq = 0
  /\ n429 = 0
  /\ lastOutcome = "none"
  /\ reqPeriods = {}
  /\ lastSleep = 0
  /\ only429 = TRUE
  /\ runs = 1
  /\ logAtKill = NoFile

Init == FetchInit /\ MonthInit /\ JoinIdle

\* lines 57-61: the header row is written when LOG does not exist
PrepareLog ==
  /\ pc = "prepare"
  /\ log' = IF log.exists THEN log ELSE File(<<LogHeader>>)
  /\ pc' = "station"
  /\ UNCHANGED <<monthVars, joinVars, miss, cache, idx, mi, attempt, backoff, parts, failed,
                 preq, n429, lastOutcome, reqPeriods, lastSleep, only429, runs, logAtKill>>

\* lines 75-79: the station is not in the registry
NoCoords ==
  /\ pc = "station"
  /\ idx <= Len(miss)
  /\ iata \notin ap_index
  /\ log' = AppendLog(<<iata, "no_coords", "pulado">>)
  /\ idx' = idx + 1
  /\ UNCHANGED <<monthVars, joinVars, miss, cache, pc, mi, attempt, backoff, parts, failed,
                 preq, n429, lastOutcome, reqPeriods, lastSleep, only429, runs, logAtKill>>

\* Cached without its skip: the station is fetched although its file exists
Cached_refetching ==
  /\ pc = "station"
  /\ idx <= Len(miss)
  /\ iata \in ap_index
  /\ cache[iata].exists
  /\ parts' = <<>>
  /\ failed' = FALSE
  /\ mi' = 1
  /\ backoff' = 1
  /\ attempt' = 1
  /\ preq' = 0
  /\ n429' = 0
  /\ reqPeriods' = {}
  /\ only429' = TRUE
  /\ pc' = "attempt"
  /\ UNCHANGED <<monthVars, joinVars, miss, cache, log, idx, lastSleep, lastOutcome, runs,
                 logAtKill>>

\* lines 81-86: the cache file of the station exists
Cached ==
  /\ pc = "station"
  /\ idx <= Len(miss)
  /\ iata \in ap_index
  /\ cache[iata].exists
  /\ log' = AppendLog(<<iata, "cached", "ok">>)
  /\ idx' = idx + 1
  /\ UNCHANGED <<monthVars, joinVars, miss, cache, pc, mi, attempt, backoff, parts, failed,
                 preq, n429, lastOutcome, reqPeriods, lastSleep, only429, runs, logAtKill>>

\* lines 88-102: the station is fetched; the month loop starts
StartStation ==
  /\ pc = "station"
  /\ idx <= Len(miss)
  /\ iata \in ap_index
  /\ ~cache[iata].exists
  /\ parts' = <<>>
  /\ failed' = FALSE
  /\ mi' = 1
  /\ backoff' = 1
  /\ attempt' = 1
  /\ preq' = 0
  /\ n429' = 0
  /\ reqPeriods' = {}
  /\ only429' = TRUE
  /\ pc' = IF Len(months) = 0 THEN "resolve" ELSE "attempt"
  /\ UNCHANGED <<monthVars, joinVars, miss, cache, log, idx, lastSleep, lastOutcome, runs,
                 logAtKill>>

\* the month loop moves to its next period, or ends (line 93)
NextPeriod ==
  /\ mi' = mi + 1
  /\ backoff' = 1
  /\ attempt' = 1
  /\ pc' = IF mi = Len(months) THEN "resolve" ELSE "attempt"

\* NextAttempt with range(1, RETRY_ATTEMPTS): one attempt short
NextAttempt_short ==
  /\ mi' = mi
  /\ attempt' = attempt + 1
  /\ failed' = (failed \/ attempt = RETRY_ATTEMPTS - 1)
  /\ pc' = IF attempt = RETRY_ATTEMPTS - 1 THEN "resolve" ELSE "attempt"

\* NextAttempt whose else clause leaves the month loop without setting failed
NextAttempt_unmarked ==
  /\ mi' = mi
  /\ attempt' = attempt + 1
  /\ failed' = failed
  /\ pc' = IF attempt = RETRY_ATTEMPTS THEN "resolve" ELSE "attempt"

\* NextAttempt with range(1, RETRY_ATTEMPTS + 2): one attempt too many
NextAttempt_extra ==
  /\ mi' = mi
  /\ attempt' = attempt + 1
  /\ failed' = (failed \/ attempt = RETRY_ATTEMPTS + 1)
  /\ pc' = IF attempt = RETRY_ATTEMPTS + 1 THEN "resolve" ELSE "attempt"

\* the attempt loop moves to its next attempt; when none is left its else
\* clause marks the station failed and leaves the month loop (lines 126-129)
NextAttempt ==
  /\ mi' = mi
  /\ attempt' = attempt + 1
  /\ failed' = (failed \/ attempt = RETRY_ATTEMPTS)
  /\ pc' = IF attempt = RETRY_ATTEMPTS THEN "resolve" ELSE "attempt"

\* NextBackoff growing by one instead of doubling
NextBackoff_linear(b) == b + 1

\* line 122: backoff *= 2
NextBackoff(b) == b * 2

\* lines 103-129: one attempt: one request, its answer, and the sleep it ends with
Attempt ==
  /\ pc = "attempt"
  /\ \E outcome \in Outcomes :
       /\ preq' = IF mi \in reqPeriods THEN preq + 1 ELSE 1
       /\ n429' = (IF mi \in reqPeriods THEN n429 ELSE 0) +
                  (IF outcome = "rate_limited" THEN 1 ELSE 0)
       /\ lastOutcome' = outcome
       /\ reqPeriods' = reqPeriods \cup {mi}
       /\ only429' = (only429 /\ outcome = "rate_limited")
       /\ CASE outcome = "ok" ->
                 /\ parts' = Append(parts, Frame(iata, mi))
                 /\ lastSleep' = SLEEP_BETWEEN_REQUESTS
                 /\ NextPeriod
                 /\ UNCHANGED failed
            [] outcome = "malformed" ->
                 /\ failed' = TRUE
                 /\ lastSleep' = 0
                 /\ NextPeriod
                 /\ UNCHANGED parts
            [] outcome = "rate_limited" ->
                 /\ lastSleep' = SLEEP_ON_429 + backoff
                 /\ backoff' = NextBackoff(backoff)
                 /\ NextAttempt
                 /\ UNCHANGED parts
            [] outcome = "request_failed" ->
                 /\ lastSleep' = 2 + attempt
                 /\ NextAttempt
                 /\ UNCHANGED <<parts, backoff>>
  /\ UNCHANGED <<monthVars, joinVars, miss, cache, log, idx, runs, logAtKill>>

\* Complete without `and not failed`
Complete_partsOnly == parts # <<>>

\* line 131: the station's series is written when parts is non-empty and
\* failed is not set
Complete == parts # <<>> /\ ~failed

\* line 134, to_csv opens (creates, truncates) the cache file
WriteOpen ==
  /\ pc = "resolve"
  /\ Complete
  /\ cache' = [cache EXCEPT ![iata] = File(<<>>)]
  /\ pc' = "writing"
  /\ UNCHANGED <<monthVars, joinVars, miss, log, idx, mi, attempt, backoff, parts, failed,
                 preq, n429, lastOutcome, reqPeriods, lastSleep, only429, runs, logAtKill>>

\* lines 132-134, to_csv writes the concatenated frames, in the order of parts
WriteFrame ==
  /\ pc = "writing"
  /\ LET n == Len(cache[iata].content)
     IN IF n < Len(parts)
        THEN /\ cache' = [cache EXCEPT ![iata] = File(Append(cache[iata].content, parts[n + 1]))]
             /\ pc' = IF n + 1 = Len(parts) THEN "written" ELSE "writing"
        ELSE /\ cache' = cache
             /\ pc' = "written"
  /\ UNCHANGED <<monthVars, joinVars, miss, log, idx, mi, attempt, backoff, parts, failed,
                 preq, n429, lastOutcome, reqPeriods, lastSleep, only429, runs, logAtKill>>

\* lines 136-137
LogOk ==
  /\ pc = "written"
  /\ log' = AppendLog(<<iata, "ok", "salvo">>)
  /\ idx' = idx + 1
  /\ pc' = "station"
  /\ UNCHANGED <<monthVars, joinVars, miss, cache, mi, attempt, backoff, parts, failed,
                 preq, n429, lastOutcome, reqPeriods, lastSleep, only429, runs, logAtKill>>

\* lines 138-141
LogFailed ==
  /\ pc = "resolve"
  /\ ~Complete
  /\ log' = AppendLog(<<iata, "failed", "partial_or_429">>)
  /\ idx' = idx + 1
  /\ pc' = "station"
  /\ UNCHANGED <<monthVars, joinVars, miss, cache, mi, attempt, backoff, parts, failed,
                 preq, n429, lastOutcome, reqPeriods, lastSleep, only429, runs, logAtKill>>

\* line 143: the station loop is over
Finish ==
  /\ pc = "station"
  /\ idx > Len(miss)
  /\ pc' = "done"
  /\ UNCHANGED <<monthVars, joinVars, miss, cache, log, idx, mi, attempt, backoff, parts, failed,
                 preq, n429, lastOutcome, reqPeriods, lastSleep, only429, runs, logAtKill>>

\* the process is killed: its memory is lost, OUT_DIR and LOG stay as they are
Kill ==
  /\ pc \notin {"done", "killed"}
  /\ runs < MaxRuns
  /\ pc' = "killed"
  /\ logAtKill' = log
  /\ idx' = 1
  /\ mi' = 1
  /\ attempt' = 1
  /\ backoff' = 1
  /\ parts' = <<>>
  /\ failed' = FALSE
  /\ preq' = 0
  /\ n429' = 0
  /\ lastOutcome' = "none"
  /\ reqPeriods' = {}
  /\ lastSleep' = 0
  /\ only429' = TRUE
  /\ UNCHANGED <<monthVars, joinVars, miss, cache, log, runs>>

\* the script is started again with the same pending list, cache and log
Restart ==
  /\ pc = "killed"
  /\ runs' = runs + 1
  /\ pc' = "prepare"
  /\ UNCHANGED <<monthVars, joinVars, miss, cache, log, idx, mi, attempt, backoff, parts,
                 failed, preq, n429, lastOutcome, reqPeriods, lastSleep, only429,
                 logAtKill>>

Next ==
  \/ PrepareLog
  \/ NoCoords
  \/ Cached
  \/ StartStation
  \/ Attempt
  \/ WriteOpen
  \/ WriteFrame
  \/ LogOk
  \/ LogFailed
  \/ Finish

Spec == Init /\ [][Next]_vars

NextRestart ==
  \/ PrepareLog
  \/ NoCoords
  \/ Cached
  \/ StartStation
  \/ Attempt
  \/ WriteOpen
  \/ WriteFrame
  \/ LogOk
  \/ LogFailed
  \/ Finish
  \/ Kill
  \/ Restart

SpecRestart == Init /\ [][NextRestart]_vars

----------------------------------------------------------------------------
(* flights_weather_2024.py: tables and conversions                         *)

SELECTED == <<"BOS", "ALB", "JFK", "PHL", "ATL", "MIA", "ORD", "MSP", "IAH", "MSY",
              "DEN", "SLC", "PHX", "LAS", "LAX", "SFO", "SEA", "ANC", "HNL", "SJU">>

SelectedSet == {SELECTED[i] : i \in 1..Len(SELECTED)}

\* a null cell (NaN / NaT) of a table
NA == "<NA>"

\* Texts of a date cell: [kind, f]. kind "slash" is f[1]/f[2]/f[3] (two, two and
\* four digits), kind "iso" is f[1]-f[2]-f[3] (four, two and two digits), kind
\* "junk" is a text no parser reads as a date.
SlashText(a, b, y) == [kind |-> "slash", f |-> <<a, b, y>>]
IsoText(y, m, d) == [kind |-> "iso", f |-> <<y, m, d>>]
JunkText == [kind |-> "junk", f |-> <<0, 0, 0>>]
\* a null date cell
NullText == [kind |-> "null", f |-> <<0, 0, 0>>]

ValidDate(y, m, d) == m \in 1..12 /\ d >= 1 /\ d <= DaysIn(y, m)

\* a parsed timestamp: [nat |-> TRUE] is NaT
NaT == [nat |-> TRUE, d |-> <<0, 0, 0>>]
Stamp(y, m, d) == [nat |-> FALSE, d |-> <<y, m, d>>]

\* pd.to_datetime without dayfirst: the first field is read as the month
ParseDayFirst_monthFirst(t) ==
  IF t.kind = "slash" /\ ValidDate(t.f[3], t.f[1], t.f[2])
  THEN Stamp(t.f[3], t.f[1], t.f[2])
  ELSE NaT

\* pd.to_datetime(text, dayfirst=True, errors="coerce") on a flight date
ParseDayFirst(t) ==
  IF t.kind = "slash" /\ ValidDate(t.f[3], t.f[2], t.f[1])
  THEN Stamp(t.f[3], t.f[2], t.f[1])
  ELSE NaT

\* pd.to_datetime(text, errors="coerce") on the time column of a weather file
ParseIso(t) ==
  IF t.kind = "iso" /\ ValidDate(t.f[1], t.f[2], t.f[3])
  THEN Stamp(t.f[1], t.f[2], t.f[3])
  ELSE NaT

Digit(n) == <<"0", "1", "2", "3", "4", "5", "6", "7", "8", "9">>[n + 1]
Fmt2(n) == Digit((n \div 10) % 10) \o Digit(n % 10)
Fmt4(n) == Fmt2(n \div 100) \o Fmt2(n % 100)

\* .dt.strftime("%Y-%m-%d"): NaT gives a null cell
Strftime(ts) ==
  IF ts.nat THEN NA
  ELSE Fmt4(ts.d[1]) \o "-" \o Fmt2(ts.d[2]) \o "-" \o Fmt2(ts.d[3])

\* .astype(str) on a column of texts and nulls: a null cell becomes "nan"
AsTypeStr(c) == IF c = NA THEN "nan" ELSE c

\* .str.strip().str.upper() on the station codes the model uses
StripUpper(c) ==
  CASE c = "jfk " -> "JFK"
    [] c = " atl" -> "ATL"
    [] OTHER -> c

RECURSIVE Flatten(_)
Flatten(qq) == IF qq = <<>> THEN <<>> ELSE Head(qq) \o Flatten(Tail(qq))

----------------------------------------------------------------------------
(* months_between on bounded inputs                                        *)

YearLo == 2023
YearHi == 2024

SampleDays == {1, 2, 15, 28, 29, 30, 31}

Dates ==
  {date(y, m, d) : y \in YearLo..YearHi, m \in 1..12, d \in SampleDays} \cap
  {dt \in (YearLo..YearHi) \X (1..12) \X (1..31) : dt[3] <= DaysIn(dt[1], dt[2])}

InitMonths ==
  /\ FetchIdle
  /\ JoinIdle
  /\ mStart \in Dates
  /\ mEnd \in Dates
  /\ mRes = <<>>
  /\ mPc = "idle"

\* a call months_between(mStart, mEnd)
CallMonthsBetween ==
  /\ mPc = "idle"
  /\ mRes' = months_between(mStart, mEnd)
  /\ mPc' = "returned"
  /\ UNCHANGED <<fetchVars, joinVars, mStart, mEnd>>

NextMonths == CallMonthsBetween

SpecMonths == InitMonths /\ [][NextMonths]_vars

----------------------------------------------------------------------------
(* flights_weather_2024.py: main()                                         *)

MaxFlights == 2     \* longest flight table explored
MaxRows == 2        \* longest weather file explored for JFK
MaxRowsB == 1       \* longest weather file explored for ATL

\* origin cells and date cells of the flight tables explored
OriginTexts == {"jfk ", " atl", "XXX"}
FlightDateTexts == {SlashText(1, 2, 2024), SlashText(2, 1, 2024), JunkText}

\* time cells of the weather files explored
TimeTexts == {IsoText(2024, 2, 1), JunkText}

\* temperature_2m_max of the row at position i of a weather file
TMax(i) == "t" \o Digit(i)

\* the column sets of the flight tables explored
ColumnSets ==
  {{"fl_date", "origin"}, {"flight_date", "origin"}, {"origin"}, {"fl_date"}, {}}

HasDateColumn(cols) == "fl_date" \in cols \/ "flight_date" \in cols

\* the flight tables with the columns cols: a row holds the cell of its origin
\* column and the cell of its date column (null where the column is missing)
FlightTables(cols) ==
  SeqsUpTo([origin : IF "origin" \in cols THEN OriginTexts ELSE {NA},
            flight_date : IF HasDateColumn(cols) THEN FlightDateTexts ELSE {NullText}],
           MaxFlights)

\* the files resume_weather_for_missing.py writes carry the station in iata
WeatherFiles(st, n) ==
  {NoFile} \cup
  {File([i \in 1..Len(ts) |-> [time |-> ts[i], iata |-> st, tmax |-> TMax(i)]]) :
     ts \in SeqsUpTo(TimeTexts, n)}

InitJoin ==
  /\ FetchIdle
  /\ MonthInit
  /\ flights_columns \in ColumnSets
  /\ flights_csv \in FlightTables(flights_columns)
  /\ weather_dir \in {[st \in SelectedSet |->
                         IF st = "JFK" THEN fj ELSE IF st = "ATL" THEN fa ELSE NoFile] :
                        fj \in WeatherFiles("JFK", MaxRows), fa \in WeatherFiles("ATL", MaxRowsB)}
  /\ jpc = "start"
  /\ flights_sel = <<>>
  /\ weather_all = <<>>
  /\ weather_unique = <<>>
  /\ found = <<>>
  /\ has_weather = <<>>
  /\ out_merged = NoFile
  /\ out_missing_orig = NoFile
  /\ out_missing_matches = NoFile
  /\ out_counts = NoFile

\* lines 38-57, on the row at index i of the flight table
normalize_flight_dates_and_origin(df) ==
  [i \in 1..Len(df) |->
     [fid |-> i,
      origin |-> StripUpper(df[i].origin),
      flight_date |-> df[i].flight_date,
      flight_date_str |-> Strftime(ParseDayFirst(df[i].flight_date))]]

InSelected(r) == r.origin \in SelectedSet

\* lines 62-89: the rows stacked for one station of selected_iatas
WeatherRowsOf(st) ==
  LET w == weather_dir[st].content
  IN [i \in 1..Len(w) |->
        [time |-> w[i].time,
         tmax |-> w[i].tmax,
         date_str |-> Strftime(ParseIso(w[i].time)),
         iata |-> StripUpper(w[i].iata),
         source_file |-> "weather_" \o st \o ".csv"]]

\* lines 59-100
read_and_stack_weather(selected_iatas) ==
  LET present(st) == weather_dir[st].exists
      fnd == SelectSeq(selected_iatas, present)
      rows == Flatten([k \in 1..Len(fnd) |-> WeatherRowsOf(fnd[k])])
  IN [weather_all |-> [i \in 1..Len(rows) |->
                         [rows[i] EXCEPT !.date_str = AsTypeStr(rows[i].date_str)]],
      found |-> fnd]

\* the weather columns of a merged row that found no weather row
NullWeather ==
  [time |-> NullText, tmax |-> NA, date_str |-> NA, iata |-> NA, source_file |-> NA]

\* drop_duplicates left out: every stacked row is kept
drop_duplicates_skipped(t) == t

\* drop_duplicates keeping the last row of each (iata, date_str) pair
drop_duplicates_last(t) ==
  LET last(i) == \A j \in (i + 1)..Len(t) :
                   ~(t[j].iata = t[i].iata /\ t[j].date_str = t[i].date_str)
  IN Flatten([i \in 1..Len(t) |-> IF last(i) THEN <<t[i]>> ELSE <<>>])

\* drop_duplicates(subset=["iata","date_str"], keep="first")
drop_duplicates(t) ==
  LET first(i) == \A j \in 1..(i - 1) :
                    ~(t[j].iata = t[i].iata /\ t[j].date_str = t[i].date_str)
  IN Flatten([i \in 1..Len(t) |-> IF first(i) THEN <<t[i]>> ELSE <<>>])

\* left.merge(right, left_on=["origin","flight_date_str"],
\*            right_on=["iata","date_str"], how="left")
merge_left(left, right) ==
  Flatten([i \in 1..Len(left) |->
     LET match(w) == w.iata = left[i].origin /\ w.date_str = left[i].flight_date_str
         ms == SelectSeq(right, match)
     IN IF ms = <<>> THEN <<[f |-> left[i], w |-> NullWeather]>>
        ELSE [k \in 1..Len(ms) |-> [f |-> left[i], w |-> ms[k]]]])

\* merged[weather_cols].notna().any(axis=1), for one row
NotNaAny(r) ==
  \/ r.w.time # NullText
  \/ r.w.tmax # NA
  \/ r.w.date_str # NA
  \/ r.w.iata # NA
  \/ r.w.source_file # NA

\* missing_matches with the mask not negated: the matched rows are selected
missing_matches_unnegated(merged, hw) ==
  Flatten([i \in 1..Len(merged) |-> IF hw[i] THEN <<merged[i]>> ELSE <<>>])

\* line 157: merged.loc[~merged.index.isin(merged[has_weather].index)]
missing_matches(merged, hw) ==
  Flatten([i \in 1..Len(merged) |-> IF hw[i] THEN <<>> ELSE <<merged[i]>>])

\* flights_sel["origin"].value_counts(), as the set of its rows
value_counts(t) ==
  {[origin |-> o, n_flights |-> Cardinality({i \in 1..Len(t) : t[i].origin = o})] :
     o \in {t[i].origin : i \in 1..Len(t)}}

\* SchemaOk without the check of the origin column
SchemaOk_dateOnly(cols) == "fl_date" \in cols \/ "flight_date" \in cols

\* lines 40-41 and 50-51: normalize_flight_dates_and_origin raises KeyError
\* unless a date column and the origin column are present
SchemaOk(cols) ==
  /\ "fl_date" \in cols \/ "flight_date" \in cols
  /\ "origin" \in cols

\* lines 105-108: the KeyError of normalize_flight_dates_and_origin ends main
SchemaError ==
  /\ jpc = "start"
  /\ ~SchemaOk(flights_columns)
  /\ jpc' = "error"
  /\ UNCHANGED <<fetchVars, monthVars, flights_csv, flights_columns, weather_dir,
                 flights_sel, weather_all, weather_unique, found, has_weather,
                 out_merged, out_missing_orig, out_missing_matches, out_counts>>

\* lines 105-113
LoadFlights ==
  /\ jpc = "start"
  /\ SchemaOk(flights_columns)
  /\ flights_sel' = SelectSeq(normalize_flight_dates_and_origin(flights_csv), InSelected)
  /\ jpc' = "loaded"
  /\ UNCHANGED <<fetchVars, monthVars, flights_csv, flights_columns, weather_dir,
                 weather_all, weather_unique, found, has_weather, out_merged,
                 out_missing_orig, out_missing_matches, out_counts>>

\* lines 117-120
ReadWeather ==
  /\ jpc = "loaded"
  /\ LET r == read_and_stack_weather(SELECTED)
     IN /\ weather_all' = r.weather_all
        /\ found' = r.found
        /\ out_missing_orig' =
             File(SelectedSet \ {r.found[k] : k \in 1..Len(r.found)})
  /\ jpc' = "weather"
  /\ UNCHANGED <<fetchVars, monthVars, flights_csv, flights_columns, weather_dir,
                 flights_sel, weather_unique, has_weather, out_merged,
                 out_missing_matches, out_counts>>

\* EmptyExit that also writes the flight counts before returning
EmptyExit_withCounts ==
  /\ jpc = "weather"
  /\ weather_all = <<>>
  /\ out_merged' = File([i \in 1..Len(flights_sel) |->
                           [f |-> flights_sel[i], w |-> NullWeather]])
  /\ out_counts' = File(value_counts(flights_sel))
  /\ jpc' = "done"
  /\ UNCHANGED <<fetchVars, monthVars, flights_csv, flights_columns, weather_dir,
                 flights_sel, weather_all, weather_unique, found, has_weather,
                 out_missing_orig, out_missing_matches>>

\* lines 122-125: no weather row was read
EmptyExit ==
  /\ jpc = "weather"
  /\ weather_all = <<>>
  /\ out_merged' = File([i \in 1..Len(flights_sel) |->
                           [f |-> flights_sel[i], w |-> NullWeather]])
  /\ jpc' = "done"
  /\ UNCHANGED <<fetchVars, monthVars, flights_csv, flights_columns, weather_dir,
                 flights_sel, weather_all, weather_unique, found, has_weather,
                 out_missing_orig, out_missing_matches, out_counts>>

\* lines 127-159
Merge ==
  /\ jpc = "weather"
  /\ weather_all # <<>>
  /\ LET fs == [i \in 1..Len(flights_sel) |->
                  [flights_sel[i] EXCEPT
                     !.flight_date_str = AsTypeStr(flights_sel[i].flight_date_str)]]
         wu == drop_duplicates(weather_all)
         merged == merge_left(fs, wu)
         hw == [i \in 1..Len(merged) |-> NotNaAny(merged[i])]
     IN /\ flights_sel' = fs
        /\ weather_unique' = wu
        /\ has_weather' = hw
        /\ out_merged' = File(merged)
        /\ out_missing_matches' = File(missing_matches(merged, hw))
        /\ out_counts' = File(value_counts(fs))
  /\ jpc' = "done"
  /\ UNCHANGED <<fetchVars, monthVars, flights_csv, flights_columns, weather_dir,
                 weather_all, found, out_missing_orig>>

NextJoin ==
  \/ SchemaError
  \/ LoadFlights
  \/ ReadWeather
  \/ EmptyExit
  \/ Merge

SpecJoin == InitJoin /\ [][NextJoin]_vars

----------------------------------------------------------------------------
(* Properties of the fetch run                                             *)

Statuses == {"ok", "cached", "no_coords", "failed"}

LastRow(l) == l.content[Len(l.content)]

IsPrefix(a, b) == Len(a) <= Len(b) /\ SubSeq(b, 1, Len(a)) = a

\* the rows LOG holds when the station loop of the current run starts
BaseRows == IF logAtKill.exists THEN logAtKill.content ELSE <<LogHeader>>

\* the station loop is running (the log is prepared, the process is alive)
InLoop == pc \in {"station", "attempt", "resolve", "writing", "written", "done"}

\* the station at position idx is being fetched
Fetching == pc \in {"attempt", "resolve", "writing", "written"}

\* C1 (as stated): once a period of the station being fetched has failed
\* (attempts exhausted, or a payload without daily/time), no request is issued
\* for a later period of the station, no cache file is written, and the
\* station's row is `failed`.
C1_AbandonOnFailure ==
  [][(failed /\ pc \in {"attempt", "resolve"}) =>
       /\ reqPeriods' = reqPeriods
       /\ cache' = cache
       /\ (log' # log => LastRow(log')[2] = "failed")]_vars

\* C2: a registered station without cache file whose every request answers
\* rate_limited gets exactly RETRY_ATTEMPTS requests, all for the first period,
\* then one `failed` row, and has no cache file afterwards.
C2_RetryBudget ==
  /\ [](pc = "resolve" /\ only429 =>
          /\ preq = RETRY_ATTEMPTS
          /\ reqPeriods = {1}
          /\ mi = 1
          /\ ~cache[iata].exists)
  /\ [][pc = "resolve" /\ only429 =>
          /\ log' = AppendLog(<<iata, "failed", "partial_or_429">>)
          /\ cache' = cache
          /\ reqPeriods' = reqPeriods
          /\ preq' = preq]_vars

C2_Witness ==
  /\ pc = "station"
  /\ idx > 1
  /\ only429
  /\ preq = RETRY_ATTEMPTS
  /\ reqPeriods = {1}
  /\ LastRow(log) = <<miss[idx - 1], "failed", "partial_or_429">>
  /\ ~cache[miss[idx - 1]].exists

\* C3 (as stated): a pending station that has a cache file when it is processed
\* gets no request and the row `cached`, the cache check coming before the
\* registry check.
C3_CachedFirst ==
  [][(pc = "station" /\ idx <= Len(miss) /\ cache[iata].exists) =>
       /\ log' = AppendLog(<<iata, "cached", "ok">>)
       /\ pc' = "station"]_vars

\* C3 (amended): a pending station that has a cache file when it is processed
\* gets no request and leaves the cache as it is; its row is `cached` when the
\* station is in the registry and `no_coords` when it is not (the registry
\* check comes first).
C3_CachedOrNoCoords ==
  [][(pc = "station" /\ idx <= Len(miss) /\ cache[iata].exists) =>
       /\ log' = AppendLog(IF iata \in ap_index THEN <<iata, "cached", "ok">>
                           ELSE <<iata, "no_coords", "pulado">>)
       /\ pc' = "station"
       /\ idx' = idx + 1
       /\ cache' = cache
       /\ reqPeriods' = reqPeriods
       /\ preq' = preq]_vars

C3_Witness ==
  /\ pc = "done"
  /\ Len(miss) = 2
  /\ miss[1] \notin ap_index /\ cache[miss[1]].exists
  /\ miss[2] \in ap_index /\ cache[miss[2]].exists
  /\ log.content = <<LogHeader, <<miss[1], "no_coords", "pulado">>,
                     <<miss[2], "cached", "ok">>>>

\* C4: in a run every entry of the pending list yields exactly one row, in
\* list order and with a status of Statuses; the row of the station being
\* fetched is not there before its requests and its cache write are over; rows
\* in the log are never changed or removed.
C4_OneRowPerStation ==
  /\ [](InLoop =>
          /\ log.exists
          /\ idx \in 1..(Len(miss) + 1)
          /\ Len(log.content) = Len(BaseRows) + idx - 1
          /\ IsPrefix(BaseRows, log.content)
          /\ \A i \in 1..(idx - 1) :
               /\ log.content[Len(BaseRows) + i][1] = miss[i]
               /\ log.content[Len(BaseRows) + i][2] \in Statuses
          /\ (Fetching => idx <= Len(miss))
          /\ (pc = "done" => idx = Len(miss) + 1))
  /\ [][log' # log =>
          /\ IsPrefix(log.content, log'.content)
          /\ Len(log'.content) = Len(log.content) + 1
          /\ (InLoop => (~Fetching' /\ cache' = cache /\ reqPeriods' = reqPeriods))]_vars

C4_Witness ==
  /\ pc = "done"
  /\ Len(miss) = 2
  /\ log.content[2][2] = "failed"
  /\ log.content[3][2] = "ok"

\* C5: the cache file of a station is created in a run iff every period
\* answered a well-formed payload; the file then holds the series of all
\* periods in chronological order; `ok` is logged exactly for a station whose
\* file was written, and a fetched station is otherwise `failed` without file.
C5_NoPartialCache ==
  /\ [](/\ (pc = "resolve" => (Complete <=> parts = FullSeries(iata)))
        /\ (pc \in {"writing", "written"} => parts = FullSeries(iata))
        /\ (pc = "written" => cache[iata] = File(FullSeries(iata))))
  /\ [][(Fetching /\ log' # log) =>
          /\ (LastRow(log')[2] = "ok" <=> pc = "written")
          /\ (LastRow(log')[2] # "ok" =>
                LastRow(log')[2] = "failed" /\ ~cache'[iata].exists)
          /\ cache' = cache]_vars
  /\ [][cache' # cache => (pc \in {"resolve", "writing"} /\ Complete)]_vars

C5_Witness ==
  /\ pc = "station"
  /\ idx > 1
  /\ LastRow(log) = <<miss[idx - 1], "ok", "salvo">>
  /\ cache[miss[idx - 1]] = File(FullSeries(miss[idx - 1]))
  /\ parts = FullSeries(miss[idx - 1])
  /\ Len(parts) = MaxMonth

\* C9 (as stated): after a kill and a restart, every station that had an `ok`
\* or `cached` row before the kill has a complete cache file.
C9_RestartSafe ==
  logAtKill.exists =>
    \A i \in 1..Len(logAtKill.content) :
      logAtKill.content[i][2] \in {"ok", "cached"} =>
        cache[logAtKill.content[i][1]] = File(FullSeries(logAtKill.content[i][1]))

RECURSIVE Pow2(_)
Pow2(n) == IF n = 0 THEN 1 ELSE 2 * Pow2(n - 1)

\* rate_limited answers already received for the period the next request is for
Earlier429 == IF mi \in reqPeriods THEN n429 ELSE 0

\* C11 (as stated): the sleep after attempt number k of a period that answered
\* rate_limited is 60 + 2^(k-1) seconds, whatever the earlier attempts answered.
C11_BackoffByAttempt ==
  [][(pc = "attempt" /\ lastOutcome' = "rate_limited") =>
       lastSleep' = SLEEP_ON_429 + Pow2(preq' - 1)]_vars

\* C11 (amended): the sleep after an attempt that answered rate_limited is
\* 60 + 2^r seconds, r being the number of earlier rate_limited answers of that
\* period (request_failed answers do not double the term); the term is 1 again
\* for the first rate_limited answer of each new period.
C11_BackoffBy429 ==
  [][(pc = "attempt" /\ lastOutcome' = "rate_limited") =>
       /\ lastSleep' = SLEEP_ON_429 + Pow2(Earlier429)
       /\ n429' = Earlier429 + 1
       /\ n429' <= preq']_vars

C11_Witness ==
  /\ pc = "attempt"
  /\ mi = 2
  /\ mi \in reqPeriods
  /\ lastOutcome = "rate_limited"
  /\ preq = 3
  /\ n429 = 2
  /\ lastSleep = SLEEP_ON_429 + 2

\* C12: a payload without daily/time fails its period at once: no further
\* request is issued for that period although attempts remain, nothing is kept
\* of it, and the station ends the run logged `failed` without cache file,
\* whatever the other periods answer.
C12_MalformedIsTerminal ==
  /\ [][(pc = "attempt" /\ lastOutcome' = "malformed") =>
          /\ failed'
          /\ parts' = parts
          /\ mi' = mi + 1
          /\ mi' \notin reqPeriods'
          /\ pc' \in {"attempt", "resolve"}]_vars
  /\ [][(Fetching /\ failed) =>
          /\ cache' = cache
          /\ \/ (Fetching' /\ failed' /\ idx' = idx)
             \/ log' = AppendLog(<<iata, "failed", "partial_or_429">>)]_vars

C12_Witness ==
  /\ pc = "station"
  /\ idx > 1
  /\ failed
  /\ lastOutcome = "ok"
  /\ preq = 1
  /\ reqPeriods = 1..Len(months)
  /\ Len(parts) = Len(months) - 1
  /\ LastRow(log) = <<miss[idx - 1], "failed", "partial_or_429">>
  /\ ~cache[miss[idx - 1]].exists

\* C19: a run changes a cache file only while it writes the file of the
\* station being fetched, which did not exist when the station was taken up:
\* an existing file is never overwritten, appended to or deleted (a file
\* written earlier in the run for a station listed twice included), and a row
\* `cached`, `no_coords` or `failed` comes with an unchanged cache directory.
C19_CacheWrittenOnce ==
  /\ [](pc \in {"attempt", "resolve"} => ~cache[iata].exists)
  /\ [][\A s \in Stations :
          cache'[s] # cache[s] =>
            /\ s = iata
            /\ cache'[s].exists
            /\ IsPrefix(cache[s].content, cache'[s].content)
            /\ \/ pc = "resolve" /\ ~cache[s].exists
               \/ pc = "writing" /\ Len(cache[s].content) < Len(parts)]_vars
  /\ [][(InLoop /\ log' # log /\ LastRow(log')[2] \in {"cached", "no_coords", "failed"}) =>
          cache' = cache]_vars
  /\ [][(pc = "written" \/ pc = "station") => cache' = cache]_vars

C19_Witness ==
  /\ pc = "done"
  /\ Len(miss) = 2
  /\ miss[1] = miss[2]
  /\ log.content[2][2] = "ok"
  /\ log.content[3][2] = "cached"
  /\ cache[miss[1]] = File(FullSeries(miss[1]))

\* a bound on the steps the run still takes
StepsLeft ==
  LET L == Len(months)
      R == RETRY_ATTEMPTS
      B == (L + 1) * (R + 1) + L + 10
      base == (Len(miss) + 1 - idx) * B
  IN CASE pc = "prepare" -> (Len(miss) + 2) * B
       [] pc = "station" -> base + B - 1
       [] pc = "attempt" -> base + 4 + L + (L - mi) * (R + 1) + (R + 1 - attempt)
       [] pc = "resolve" -> base + 3 + L
       [] pc = "writing" -> base + 2 + (Len(parts) - Len(cache[iata].content))
       [] pc = "written" -> base + 1
       [] OTHER -> 0

\* C20: rate_limited and request_failed answers share one budget: at most
\* RETRY_ATTEMPTS requests are issued per (station, period), each period of a
\* station is taken up once and in order, the sleep after attempt k that
\* answered request_failed is 2 + k seconds, and the run terminates: every step
\* lowers a natural-number bound on the steps left, and a step is possible
\* until the run is done.
C20_SharedBudget ==
  /\ [](/\ preq <= RETRY_ATTEMPTS
        /\ reqPeriods \subseteq 1..Len(months)
        /\ Cardinality(reqPeriods) * RETRY_ATTEMPTS <= RETRY_ATTEMPTS * Len(months)
        /\ StepsLeft >= 0
        /\ (pc # "done" => ENABLED Next))
  /\ [][(pc = "attempt" /\ lastOutcome' = "request_failed") =>
          lastSleep' = 2 + preq']_vars
  /\ [][pc = "attempt" =>
          /\ reqPeriods' = reqPeriods \cup {mi}
          /\ \A p \in reqPeriods : p <= mi
          /\ mi' >= mi]_vars
  /\ [][StepsLeft' < StepsLeft]_vars

C20_Witness ==
  /\ pc = "resolve"
  /\ failed
  /\ preq = RETRY_ATTEMPTS
  /\ lastOutcome = "request_failed"
  /\ n429 = 3
  /\ lastSleep = 2 + RETRY_ATTEMPTS
  /\ mi = 2

----------------------------------------------------------------------------
(* Properties of months_between                                            *)

\* the periods are in order, disjoint and contiguous, run from start to end,
\* and none spans two calendar months
IsMonthPartition(res, start, end) ==
  /\ Len(res) >= 1
  /\ res[1][1] = start
  /\ res[Len(res)][2] = end
  /\ \A i \in 1..Len(res) :
       /\ DateLe(res[i][1], res[i][2])
       /\ res[i][1][1] = res[i][2][1]
       /\ res[i][1][2] = res[i][2][2]
  /\ \A i \in 1..(Len(res) - 1) : PlusOneDay(res[i][2]) = res[i + 1][1]

\* C10 (as stated): for every start <= end, months_between(start, end) is a
\* partition of [start, end] into periods that each lie within one calendar
\* month, the first starting at start and the last ending at end.
C10_PartitionFromStart ==
  (mPc = "returned" /\ DateLe(mStart, mEnd)) => IsMonthPartition(mRes, mStart, mEnd)

\* the calendar month k - 1 months after the month of start, as <<year, month>>
MonthAfter(start, k) ==
  LET t == start[1] * 12 + (start[2] - 1) + (k - 1)
  IN <<t \div 12, (t % 12) + 1>>

\* the last day of a calendar month, from the calendar's table
LastDayOf(y, m) ==
  IF m = 2 /\ y % 4 = 0 /\ (y % 100 # 0 \/ y % 400 = 0) THEN 29
  ELSE <<31, 28, 31, 30, 31, 30, 31, 31, 30, 31, 30, 31>>[m]

\* C13: for a start on day 1 of a month, months_between yields one period per
\* calendar month of [start, end], each from day 1 to the last day of its
\* month, the last one ending at end; for START_DATE and END_DATE these are the
\* 12 months of 2024, February ending on the 29th.
C13_CalendarMonths ==
  (mPc = "returned" /\ mStart[3] = 1 /\ DateLe(mStart, mEnd)) =>
    /\ Len(mRes) = (mEnd[1] - mStart[1]) * 12 + (mEnd[2] - mStart[2]) + 1
    /\ \A k \in 1..Len(mRes) :
         LET ym == MonthAfter(mStart, k)
         IN /\ mRes[k][1] = <<ym[1], ym[2], 1>>
            /\ mRes[k][2] = IF k = Len(mRes) THEN mEnd
                            ELSE <<ym[1], ym[2], LastDayOf(ym[1], ym[2])>>
    /\ (mStart = <<2024, 1, 1>> /\ mEnd = <<2024, 12, 31>>) =>
         /\ Len(mRes) = 12
         /\ mRes[1] = <<<<2024, 1, 1>>, <<2024, 1, 31>>>>
         /\ mRes[2] = <<<<2024, 2, 1>>, <<2024, 2, 29>>>>
         /\ mRes[12] = <<<<2024, 12, 1>>, <<2024, 12, 31>>>>

C13_Witness ==
  /\ mPc = "returned"
  /\ mStart = START_DATE
  /\ mEnd = END_DATE
  /\ Len(mRes) = 12
  /\ mRes[2][2] = <<2024, 2, 29>>

----------------------------------------------------------------------------
(* Properties of the join run                                              *)

FoundSet == {found[k] : k \in 1..Len(found)}

\* the rows of the flight table whose origin is in the allow-list
SelectedFlights ==
  {i \in 1..Len(flights_csv) : StripUpper(flights_csv[i].origin) \in SelectedSet}

MergedRowsOf(i) ==
  {k \in 1..Len(out_merged.content) : out_merged.content[k].f.fid = i}

\* the weather table holds two rows for one (station, date) pair
HasDuplicateWeather ==
  \E i, j \in 1..Len(weather_all) :
    /\ i < j
    /\ weather_all[i].iata = weather_all[j].iata
    /\ weather_all[i].date_str = weather_all[j].date_str

\* C6: the merged output holds exactly one row for each flight row whose
\* origin is in the allow-list, matched or not, in the order of the flight
\* table and with its flight columns as normalized; it holds no other row.
C6_JoinCompleteness ==
  jpc = "done" =>
    /\ out_merged.exists
    /\ Len(out_merged.content) = Cardinality(SelectedFlights)
    /\ \A i \in SelectedFlights : Cardinality(MergedRowsOf(i)) = 1
    /\ \A k \in 1..Len(out_merged.content) :
         LET r == out_merged.content[k]
         IN /\ r.f.fid \in SelectedFlights
            /\ r.f.origin = StripUpper(flights_csv[r.f.fid].origin)
            /\ r.f.flight_date = flights_csv[r.f.fid].flight_date
            /\ AsTypeStr(r.f.flight_date_str) =
                 AsTypeStr(Strftime(ParseDayFirst(r.f.flight_date)))
            /\ (k > 1 => out_merged.content[k - 1].f.fid < r.f.fid)

C6_Witness ==
  /\ jpc = "done"
  /\ HasDuplicateWeather
  /\ Len(out_merged.content) = 2
  /\ has_weather = <<TRUE, FALSE>>

\* C7 (as stated): a flight row whose date text fails day-before-month parsing
\* is kept in the merged output and is matched to no weather row, whatever the
\* weather cache holds.
C7_UnparsableNeverMatched ==
  jpc = "done" =>
    \A i \in SelectedFlights :
      ParseDayFirst(flights_csv[i].flight_date) = NaT =>
        /\ MergedRowsOf(i) # {}
        /\ \A k \in MergedRowsOf(i) : out_merged.content[k].w = NullWeather

Unmatched(r) == r.w = NullWeather

OriginFound(r) == r.f.origin \in FoundSet

UnmatchedOriginFound(r) == Unmatched(r) /\ OriginFound(r)

\* C8 (as stated): missing-matches holds exactly the merged rows with no
\* weather column populated whose origin had a cache file.
C8_MissingMatchesFoundOnly ==
  (jpc = "done" /\ out_missing_matches.exists) =>
    out_missing_matches.content = SelectSeq(out_merged.content, UnmatchedOriginFound)

\* C8 (amended): when the merge is reached, missing-matches holds exactly the
\* merged rows with no weather column populated, in merged order, those of
\* origins without cache file included (their station is also listed in
\* missing-weather-origins).
C8_MissingMatchesAllUnmatched ==
  (jpc = "done" /\ out_missing_matches.exists) =>
    /\ out_missing_matches.content = SelectSeq(out_merged.content, Unmatched)
    /\ \A k \in 1..Len(out_merged.content) :
         LET r == out_merged.content[k]
         IN r.f.origin \notin FoundSet =>
              /\ r.f.origin \in out_missing_orig.content
              /\ \E n \in 1..Len(out_missing_matches.content) :
                   out_missing_matches.content[n] = r

C8_Witness ==
  /\ jpc = "done"
  /\ out_missing_matches.exists
  /\ Len(out_missing_matches.content) = 2
  /\ out_missing_matches.content[1].f.origin \in FoundSet
  /\ out_missing_matches.content[2].f.origin \notin FoundSet

\* the stacked weather table holds a row of flight i's station for flight i's
\* calendar date (an unparsable date is no date and equals none)
HasWeatherRowFor(i) ==
  LET d == ParseDayFirst(flights_csv[i].flight_date)
  IN /\ d # NaT
     /\ \E j \in 1..Len(weather_all) :
          /\ weather_all[j].iata = StripUpper(flights_csv[i].origin)
          /\ ParseIso(weather_all[j].time) = d

\* the stacked weather table holds a row of flight i's station for some date
\* other than flight i's
OriginHasOtherDates(i) ==
  \E j \in 1..Len(weather_all) :
    /\ weather_all[j].iata = StripUpper(flights_csv[i].origin)
    /\ ParseIso(weather_all[j].time) # NaT
    /\ ParseIso(weather_all[j].time) # ParseDayFirst(flights_csv[i].flight_date)

MissingRowsOf(i) ==
  {n \in 1..Len(out_missing_matches.content) :
     out_missing_matches.content[n].f.fid = i}

\* C14 (as stated): when at least one weather row is loaded, every allow-listed
\* flight whose (origin, date) has no weather row while its origin has rows
\* for other dates appears exactly once in missing-matches, no matched row
\* appears there, and matched rows plus missing-matches rows make up the
\* merged output.
C14_MissingMatchCorrect ==
  (jpc = "done" /\ weather_all # <<>>) =>
    /\ \A i \in SelectedFlights :
         (~HasWeatherRowFor(i) /\ OriginHasOtherDates(i)) =>
           Cardinality(MissingRowsOf(i)) = 1
    /\ \A n \in 1..Len(out_missing_matches.content) :
         Unmatched(out_missing_matches.content[n])
    /\ Len(out_missing_matches.content)
         + Cardinality({k \in 1..Len(has_weather) : has_weather[k]})
         = Len(out_merged.content)

\* the rows of the cache files: <<s, r>> is row r of the file of SELECTED[s]
FileRows ==
  UNION {{<<k, r>> : r \in 1..Len(weather_dir[SELECTED[k]].content)} :
           k \in 1..Len(SELECTED)}

FileRow(p) == weather_dir[SELECTED[p[1]]].content[p[2]]

\* stacking order: allow-list order of the stations, then row order in the file
Before(p, q) == p[1] < q[1] \/ (p[1] = q[1] /\ p[2] < q[2])

\* the (station, date) pair of a file row, as the join compares it
KeyOf(p) ==
  <<StripUpper(FileRow(p).iata), AsTypeStr(Strftime(ParseIso(FileRow(p).time)))>>

FirstRows ==
  {p \in FileRows : \A q \in FileRows : Before(q, p) => KeyOf(q) # KeyOf(p)}

\* the file row a row of the weather table comes from
CarriesFileRow(w, p) ==
  /\ <<w.iata, w.date_str>> = KeyOf(p)
  /\ w.time = FileRow(p).time
  /\ w.tmax = FileRow(p).tmax
  /\ w.source_file = "weather_" \o SELECTED[p[1]] \o ".csv"

FirstRowOf(w) == CHOOSE p \in FirstRows : <<w.iata, w.date_str>> = KeyOf(p)

\* C15: the weather table used for the join holds one row for each (station,
\* date) pair of the stacked table, namely the first in stacking order, in
\* stacking order; a matched merged row carries the values of that first row.
C15_FirstOccurrenceWins ==
  (jpc = "done" /\ weather_all # <<>>) =>
    /\ Len(weather_unique) = Cardinality(FirstRows)
    /\ \A j \in 1..Len(weather_unique) :
         /\ \E p \in FirstRows : <<weather_unique[j].iata, weather_unique[j].date_str>> = KeyOf(p)
         /\ CarriesFileRow(weather_unique[j], FirstRowOf(weather_unique[j]))
         /\ \A k \in (j + 1)..Len(weather_unique) :
              Before(FirstRowOf(weather_unique[j]), FirstRowOf(weather_unique[k]))
    /\ \A k \in 1..Len(out_merged.content) :
         LET r == out_merged.content[k]
         IN has_weather[k] =>
              /\ <<r.w.iata, r.w.date_str>> = <<r.f.origin, r.f.flight_date_str>>
              /\ \E p \in FirstRows : <<r.w.iata, r.w.date_str>> = KeyOf(p)
              /\ CarriesFileRow(r.w, FirstRowOf(r.w))

\* a flight is matched on a (station, date) pair that the stacked table holds
\* twice
C15_Witness ==
  /\ jpc = "done"
  /\ Len(weather_all) = 2
  /\ Len(weather_unique) = 1
  /\ \E k \in 1..Len(out_merged.content) :
       /\ has_weather[k]
       /\ out_merged.content[k].w.tmax = TMax(1)
       /\ out_merged.content[k].w.date_str # "nan"

\* the rows of the file of station st whose time text is the calendar day
\* d of month m of year y
FileRowsOn(st, y, m, d) ==
  {p \in FileRows : SELECTED[p[1]] = st /\ FileRow(p).time = IsoText(y, m, d)}

EarliestOf(ps) == CHOOSE p \in ps : \A q \in ps : q = p \/ Before(p, q)

\* C16: a flight of station S with date text DD/MM/YYYY gets the canonical
\* date YYYY-MM-DD ("01/02/2024" gives "2024-02-01"); when weather rows were
\* loaded it is matched, with the values of the first row of S for that day,
\* if the file of S holds such a row, and unmatched if it does not.
C16_DayFirstExactJoin ==
  (jpc = "done" /\ weather_all # <<>>) =>
    \A k \in 1..Len(out_merged.content) :
      LET r == out_merged.content[k]
          t == r.f.flight_date
          ps == FileRowsOn(r.f.origin, t.f[3], t.f[2], t.f[1])
      IN t.kind = "slash" =>
           /\ t = SlashText(1, 2, 2024) => r.f.flight_date_str = "2024-02-01"
           /\ t = SlashText(2, 1, 2024) => r.f.flight_date_str = "2024-01-02"
           /\ ps # {} =>
                /\ has_weather[k]
                /\ r.w.iata = r.f.origin
                /\ r.w.date_str = r.f.flight_date_str
                /\ r.w.time = IsoText(t.f[3], t.f[2], t.f[1])
                /\ r.w.tmax = FileRow(EarliestOf(ps)).tmax
           /\ ps = {} =>
                /\ ~has_weather[k]
                /\ r.w = NullWeather
                /\ \E n \in 1..Len(out_missing_matches.content) :
                     out_missing_matches.content[n] = r

\* the flight of 01/02/2024 is matched to the row of 2024-02-01 of its station
\* and the flight of 02/01/2024 of the same station is not matched
C16_Witness ==
  /\ jpc = "done"
  /\ Len(out_merged.content) = 2
  /\ out_merged.content[1].f.origin = "JFK"
  /\ out_merged.content[1].f.flight_date = SlashText(1, 2, 2024)
  /\ out_merged.content[1].w.time = IsoText(2024, 2, 1)
  /\ out_merged.content[2].f.origin = "JFK"
  /\ out_merged.content[2].f.flight_date = SlashText(2, 1, 2024)
  /\ has_weather = <<TRUE, FALSE>>

NoCacheFile == \A st \in SelectedSet : ~weather_dir[st].exists

\* C17: when no cache file exists for any allow-list station the run ends
\* through the early exit: missing-weather-origins lists every allow-list
\* station, the merged output holds each allow-listed flight once, in order and
\* without weather values, and nothing of the merge, missing-matches or
\* flight-counts steps is done.
C17_NoWeatherShortCircuit ==
  /\ (jpc = "weather" /\ NoCacheFile) => (ENABLED EmptyExit /\ ~ENABLED Merge)
  /\ (jpc = "done" /\ NoCacheFile) =>
       /\ out_missing_orig = File(SelectedSet)
       /\ out_merged.exists
       /\ Len(out_merged.content) = Cardinality(SelectedFlights)
       /\ \A i \in SelectedFlights : Cardinality(MergedRowsOf(i)) = 1
       /\ \A k \in 1..Len(out_merged.content) :
            /\ out_merged.content[k].w = NullWeather
            /\ out_merged.content[k].f.fid \in SelectedFlights
            /\ k > 1 => out_merged.content[k - 1].f.fid < out_merged.content[k].f.fid
       /\ weather_unique = <<>>
       /\ has_weather = <<>>
       /\ out_missing_matches = NoFile
       /\ out_counts = NoFile

\* the run ended with no cache file, one flight kept and one filtered out
C17_Witness ==
  /\ jpc = "done"
  /\ NoCacheFile
  /\ Len(flights_csv) = 2
  /\ Len(out_merged.content) = 1
  /\ out_missing_orig.exists

\* C18: if the flight table has neither a fl_date nor a flight_date column, or
\* has no origin column, the run stops with the error before any of its four
\* outputs is written.
C18_SchemaErrorIsFatal ==
  ~(/\ "fl_date" \in flights_columns \/ "flight_date" \in flights_columns
    /\ "origin" \in flights_columns) =>
      /\ jpc \in {"start", "error"}
      /\ jpc = "start" => (ENABLED SchemaError /\ ~ENABLED LoadFlights)
      /\ out_merged = NoFile
      /\ out_missing_orig = NoFile
      /\ out_missing_matches = NoFile
      /\ out_counts = NoFile

\* the run stopped on a flight table with a date column and no origin column
\* while a cache file was present
C18_Witness ==
  /\ jpc = "error"
  /\ flights_columns = {"fl_date"}
  /\ flights_csv # <<>>
  /\ weather_dir["JFK"].exists
  /\ out_merged = NoFile

\* C21 (as stated): whenever a request is about to be issued after an earlier
\* request of the run, the script has slept since the answer to that earlier
\* request: 4 s after a successful answer, 60 s plus backoff after a
\* rate-limited one, 2 + attempt seconds after a failed one; this holds within
\* a station and for the first request of the next station.
C21_RequestPacing ==
  (pc = "attempt" /\ lastOutcome # "none") =>
    /\ lastSleep >= 1
    /\ lastOutcome = "ok" => lastSleep = SLEEP_BETWEEN_REQUESTS
    /\ lastOutcome = "rate_limited" => lastSleep > SLEEP_ON_429
    /\ lastOutcome = "request_failed" => lastSleep \in 3..(2 + RETRY_ATTEMPTS)

====
